---- MODULE Spec2Model ----
(***************************************************************************)
(* A model of the Collins dictionary entry parser of scripts/import_mdx.py *)
(* (class CollinsHTMLParser) as a state machine over the event stream that *)
(* html.parser.HTMLParser delivers: handle_starttag, handle_endtag and     *)
(* handle_data calls followed by get_result; of parse_collins_html, which  *)
(* wraps the parser; of the import loops import_collins and import_etyma;  *)
(* of process_dict_source of scripts/preprocess_dict.py; and of            *)
(* generate_abstracts of scripts/generate_abstracts.py.  Text is modelled  *)
(* by TLA+ strings, on which TLC evaluates Len, \o, SubSeq, Head and Tail. *)
(***************************************************************************)
EXTENDS Integers, Sequences, FiniteSets, TLC

VARIABLES
    parser,     \* the CollinsHTMLParser object: its fields as a record
    trace,      \* history: the handler calls made so far, in order
    pc,         \* "feed" while events are processed, "done" after get_result
    act_depth,  \* history: per flag, the stack depth of the most recent open
                \* event that activated it (0: never activated)
    scope,      \* history: per flag, the outermost frame still on the stack
                \* whose open event activated it, with the text received
                \* since that open (None: no such frame)
    well,       \* history: every close so far named the tag of the top frame
    call,       \* the calls of parse_collins_html: the markup and the events
                \* still to be fed of the running one, the exception in
                \* flight, and as history the entries parsed and the records
                \* returned so far
    job         \* the running batch job (None: none): an import_collins or
                \* import_etyma call with its items, its counters and the
                \* rows inserted; the database of preprocess_dict.py with
                \* the running process_dict_source call; or the data
                \* loaded by generate_abstracts with the rows it wrote

vars == <<parser, trace, pc, act_depth, scope, well, call, job>>

----------------------------------------------------------------------------
(* Python string primitives *)

WhiteSpace == {" ", "\t", "\n", "\r"}

Letters ==
    {"a","b","c","d","e","f","g","h","i","j","k","l","m","n","o","p","q","r",
     "s","t","u","v","w","x","y","z","A","B","C","D","E","F","G","H","I","J",
     "K","L","M","N","O","P","Q","R","S","T","U","V","W","X","Y","Z"}

\* the character class [a-zA-Z\-\' ] of the word-form pattern
FormChars == Letters \cup {"-", "'", " "}

CharAt(s, i) == SubSeq(s, i, i)

RECURSIVE LStrip(_)
LStrip(s) ==
    IF Len(s) > 0 /\ Head(s) \in WhiteSpace THEN LStrip(Tail(s)) ELSE s

RECURSIVE RStrip(_)
RStrip(s) ==
    IF Len(s) > 0 /\ CharAt(s, Len(s)) \in WhiteSpace
    THEN RStrip(SubSeq(s, 1, Len(s) - 1))
    ELSE s

\* str.strip()
strip(s) == RStrip(LStrip(s))

\* the Python expression `sub in s` on strings
In(sub, s) ==
    \E i \in 1..(Len(s) - Len(sub) + 1) : SubSeq(s, i, i + Len(sub) - 1) = sub

\* re.match(r'^[a-zA-Z\-\' ]+$', text): `$` also matches before a final newline
FormPattern(text) ==
    LET t == IF Len(text) > 0 /\ CharAt(text, Len(text)) = "\n"
             THEN SubSeq(text, 1, Len(text) - 1)
             ELSE text
    IN  /\ Len(t) >= 1
        /\ \A i \in 1..Len(t) : CharAt(t, i) \in FormChars

\* sep.join(items) for a list of strings
RECURSIVE JoinList(_, _)
JoinList(sep, items) ==
    IF Len(items) = 0 THEN ""
    ELSE IF Len(items) = 1 THEN items[1]
    ELSE items[1] \o sep \o JoinList(sep, Tail(items))

\* sep.join(s) for a string s: Python iterates its characters
RECURSIVE JoinChars(_, _)
JoinChars(sep, s) ==
    IF Len(s) <= 1 THEN s
    ELSE Head(s) \o sep \o JoinChars(sep, Tail(s))

----------------------------------------------------------------------------
(* CollinsHTMLParser *)

None == <<>>

\* the dict created for a new sense definition
NewDef ==
    [num |-> "", pos |-> "", cn |-> "", en |-> "",
     examples |-> <<>>, synonyms |-> <<>>]

\* __init__.  result.joined records the Python type of the two phonetic
\* fields: lists until get_result replaces them by strings.
CollinsHTMLParser ==
    [result |-> [word |-> "", phonetic_uk |-> <<>>, phonetic_us |-> <<>>,
                 frequency |-> 0, forms |-> <<>>, definitions |-> <<>>,
                 joined |-> FALSE],
     tag_stack |-> <<>>,
     in_word_key |-> FALSE,
     in_pron_uk |-> FALSE,
     in_pron_us |-> FALSE,
     pron_uk_depth |-> 0,
     pron_us_depth |-> 0,
     current_pron_uk |-> "",
     current_pron_us |-> "",
     in_form_inflected |-> FALSE,
     in_orth |-> FALSE,
     orth_depth |-> 0,
     in_example |-> FALSE,
     in_caption |-> FALSE,
     in_def_cn |-> FALSE,
     def_cn_depth |-> 0,
     in_chinese_text |-> FALSE,
     chinese_text_depth |-> 0,
     in_num |-> FALSE,
     in_st |-> FALSE,
     in_li |-> FALSE,
     in_li_p |-> FALSE,
     li_p_count |-> 0,
     current_def |-> None,
     current_example_en |-> "",
     current_example_cn |-> "",
     collecting_en_def |-> FALSE,
     frequency_count |-> 0]

----------------------------------------------------------------------------
(* handle_starttag *)

\* the class tests of the span branch, in the order of the elif chain
IsWordKey(current_class) == In("word_key", current_class)

IsPronUk_Loose(current_class) == In("type_uk", current_class)

IsPronUk(current_class) == In("pron type_uk", current_class)

IsPronUs(current_class) == In("pron type_us", current_class)

IsNum(current_class) == current_class = "num"

IsSt(current_class) == current_class = "st"

IsStar_LevelOnly(current_class) == In("level", current_class)

IsStar(current_class) ==
    In("level", current_class) /\ In("roundRed", current_class)

IsDefCn(current_class) ==
    In("def_cn", current_class) /\ In("cn_before", current_class)

IsChineseText(current_class) == In("chinese-text", current_class)

\* the branch of the span elif chain that a class string selects
SpanBranch(current_class) ==
    IF IsWordKey(current_class) THEN "word_key"
    ELSE IF IsPronUk(current_class) THEN "pron_uk"
    ELSE IF IsPronUs(current_class) THEN "pron_us"
    ELSE IF IsNum(current_class) THEN "num"
    ELSE IF IsSt(current_class) THEN "st"
    ELSE IF IsStar(current_class) THEN "star"
    ELSE IF IsDefCn(current_class) THEN "def_cn"
    ELSE IF IsChineseText(current_class) THEN "chinese_text"
    ELSE "none"

\* if tag == "span": ... (the first chain)
StartSpan(self, current_class, stack_depth) ==
    LET branch == SpanBranch(current_class) IN
    IF branch = "word_key" THEN
        [self EXCEPT !.in_word_key = TRUE]
    ELSE IF branch = "pron_uk" THEN
        [self EXCEPT !.in_pron_uk = TRUE,
                     !.pron_uk_depth = stack_depth,
                     !.current_pron_uk = ""]
    ELSE IF branch = "pron_us" THEN
        [self EXCEPT !.in_pron_us = TRUE,
                     !.pron_us_depth = stack_depth,
                     !.current_pron_us = ""]
    ELSE IF branch = "num" THEN
        [self EXCEPT !.in_num = TRUE]
    ELSE IF branch = "st" THEN
        [self EXCEPT !.in_st = TRUE]
    ELSE IF branch = "star" THEN
        [self EXCEPT !.frequency_count = @ + 1]
    ELSE IF branch = "def_cn" THEN
        [self EXCEPT !.in_def_cn = TRUE,
                     !.def_cn_depth = stack_depth]
    ELSE IF branch = "chinese_text" THEN
        [self EXCEPT !.in_chinese_text = TRUE,
                     !.chinese_text_depth = stack_depth]
    ELSE self

\* the branch of the div if/elif chain that a class value selects
DivBranch(current_class) ==
    IF In("form_inflected", current_class) THEN "form_inflected"
    ELSE IF In("collins_en_cn example", current_class) THEN "example"
    ELSE IF In("caption", current_class) /\ In("hide_cn", current_class)
    THEN "caption"
    ELSE "none"

\* elif tag == "div": ...
StartDiv(self, current_class) ==
    LET b == DivBranch(current_class)
    IN  IF b = "form_inflected" THEN
            [self EXCEPT !.in_form_inflected = TRUE]
        ELSE IF b = "example" THEN
            [self EXCEPT !.in_example = TRUE,
                         !.current_def = <<NewDef>>]
        ELSE IF b = "caption" THEN
            [self EXCEPT !.in_caption = TRUE,
                         !.collecting_en_def = TRUE]
        ELSE self

\* self._in_form_inflected and "orth" in current_class
IsOrth(self, current_class) ==
    self.in_form_inflected /\ In("orth", current_class)

\* elif tag == "a": ...
StartA(self, current_class, stack_depth) ==
    IF IsOrth(self, current_class) THEN
        [self EXCEPT !.in_orth = TRUE, !.orth_depth = stack_depth]
    ELSE self

\* the second chain: span orth / li / p
StartSecond(self, tag, current_class, stack_depth) ==
    IF tag = "span" /\ IsOrth(self, current_class) THEN
        [self EXCEPT !.in_orth = TRUE, !.orth_depth = stack_depth]
    ELSE IF tag = "li" THEN
        IF self.in_example THEN
            [self EXCEPT !.in_li = TRUE,
                         !.li_p_count = 0,
                         !.current_example_en = "",
                         !.current_example_cn = ""]
        ELSE self
    ELSE IF tag = "p" THEN
        IF self.in_li THEN
            [self EXCEPT !.in_li_p = TRUE, !.li_p_count = @ + 1]
        ELSE self
    ELSE self

Push(self, tag, current_class) ==
    [self EXCEPT !.tag_stack = Append(@, <<tag, current_class>>)]

handle_starttag(self, tag, current_class) ==
    LET s0 == Push(self, tag, current_class)
        stack_depth == Len(s0.tag_stack)
        s1 == IF tag = "span" THEN StartSpan(s0, current_class, stack_depth)
              ELSE IF tag = "div" THEN StartDiv(s0, current_class)
              ELSE IF tag = "a" THEN StartA(s0, current_class, stack_depth)
              ELSE s0
    IN  StartSecond(s1, tag, current_class, stack_depth)

----------------------------------------------------------------------------
(* handle_endtag *)

\* the depth guards of the span and a branches
ClosesPronUk_AnyDepth(self, stack_depth) == self.in_pron_uk

ClosesPronUk(self, stack_depth) ==
    self.in_pron_uk /\ stack_depth = self.pron_uk_depth

ClosesPronUs(self, stack_depth) ==
    self.in_pron_us /\ stack_depth = self.pron_us_depth

ClosesChineseText(self, stack_depth) ==
    self.in_chinese_text /\ stack_depth = self.chinese_text_depth

ClosesDefCn(self, stack_depth) ==
    self.in_def_cn /\ stack_depth = self.def_cn_depth

ClosesOrth(self, stack_depth) ==
    self.in_orth /\ stack_depth = self.orth_depth

\* pron = buffer.strip(); if pron: list.append(pron)
AppendPron(prons, buffer) ==
    IF strip(buffer) # "" THEN Append(prons, strip(buffer)) ELSE prons

\* if tag == "span": ...
EndSpan(self, stack_depth) ==
    IF ClosesPronUk(self, stack_depth) THEN
        [self EXCEPT !.result.phonetic_uk = AppendPron(@, self.current_pron_uk),
                     !.in_pron_uk = FALSE,
                     !.current_pron_uk = ""]
    ELSE IF ClosesPronUs(self, stack_depth) THEN
        [self EXCEPT !.result.phonetic_us = AppendPron(@, self.current_pron_us),
                     !.in_pron_us = FALSE,
                     !.current_pron_us = ""]
    ELSE IF self.in_word_key THEN [self EXCEPT !.in_word_key = FALSE]
    ELSE IF self.in_num THEN [self EXCEPT !.in_num = FALSE]
    ELSE IF self.in_st THEN [self EXCEPT !.in_st = FALSE]
    ELSE IF ClosesChineseText(self, stack_depth) THEN
        [self EXCEPT !.in_chinese_text = FALSE]
    ELSE IF ClosesDefCn(self, stack_depth) THEN
        [self EXCEPT !.in_def_cn = FALSE]
    ELSE IF ClosesOrth(self, stack_depth) THEN
        [self EXCEPT !.in_orth = FALSE]
    ELSE self

\* self._current_def["en"] or self._current_def["cn"]
HasGloss_Always(def) == TRUE

HasGloss(def) == def.en # "" \/ def.cn # ""

\* elif tag == "div": three independent ifs on the class of the top frame
EndDiv(self, top_class) ==
    LET s1 == IF self.in_example /\ In("collins_en_cn example", top_class) THEN
                  [self EXCEPT
                     !.result.definitions =
                         IF self.current_def # None
                            /\ HasGloss(self.current_def[1])
                         THEN Append(@, self.current_def[1])
                         ELSE @,
                     !.in_example = FALSE,
                     !.current_def = None]
              ELSE self
        s2 == IF s1.in_caption /\ In("caption", top_class) THEN
                  [s1 EXCEPT !.in_caption = FALSE,
                             !.collecting_en_def = FALSE]
              ELSE s1
    IN  IF s2.in_form_inflected /\ In("form_inflected", top_class) THEN
            [s2 EXCEPT !.in_form_inflected = FALSE]
        ELSE s2

\* if en or cn:
HasSentence_Always(en, cn) == TRUE

HasSentence(en, cn) == en # "" \/ cn # ""

\* elif tag == "li": ...
EndLi(self) ==
    LET en == strip(self.current_example_en)
        cn == strip(self.current_example_cn)
        s1 == IF self.in_li /\ self.current_def # None /\ HasSentence(en, cn)
              THEN [self EXCEPT !.current_def[1].examples =
                                    Append(@, [en |-> en, cn |-> cn])]
              ELSE self
    IN  [s1 EXCEPT !.in_li = FALSE, !.in_li_p = FALSE]

\* the unconditional pop that ends handle_endtag
Pop_NameChecked(self, tag) ==
    IF self.tag_stack # <<>> /\ self.tag_stack[Len(self.tag_stack)][1] = tag
    THEN [self EXCEPT !.tag_stack = SubSeq(@, 1, Len(@) - 1)]
    ELSE self

Pop(self, tag) ==
    IF self.tag_stack # <<>>
    THEN [self EXCEPT !.tag_stack = SubSeq(@, 1, Len(@) - 1)]
    ELSE self

\* handle_endtag without the test of the empty stack
handle_endtag_Unguarded(self, tag) ==
    LET stack_depth == Len(self.tag_stack)
        top_class == IF stack_depth = 0 THEN ""
                     ELSE self.tag_stack[stack_depth][2]
        s1 == IF tag = "span" THEN EndSpan(self, stack_depth)
              ELSE IF tag = "div" THEN EndDiv(self, top_class)
              ELSE IF tag = "a" THEN
                  IF ClosesOrth(self, stack_depth)
                  THEN [self EXCEPT !.in_orth = FALSE]
                  ELSE self
              ELSE IF tag = "li" THEN EndLi(self)
              ELSE IF tag = "p" THEN [self EXCEPT !.in_li_p = FALSE]
              ELSE self
    IN  Pop(s1, tag)

handle_endtag(self, tag) ==
    IF self.tag_stack = <<>> THEN self
    ELSE
        LET stack_depth == Len(self.tag_stack)
            top_class == self.tag_stack[stack_depth][2]
            s1 == IF tag = "span" THEN EndSpan(self, stack_depth)
                  ELSE IF tag = "div" THEN EndDiv(self, top_class)
                  ELSE IF tag = "a" THEN
                      IF ClosesOrth(self, stack_depth)
                      THEN [self EXCEPT !.in_orth = FALSE]
                      ELSE self
                  ELSE IF tag = "li" THEN EndLi(self)
                  ELSE IF tag = "p" THEN [self EXCEPT !.in_li_p = FALSE]
                  ELSE self
        IN  Pop(s1, tag)

----------------------------------------------------------------------------
(* handle_data *)

\* elif self._in_li: the example sentences of a list item
DataLi(self, data, text) ==
    IF self.li_p_count = 1 THEN
        [self EXCEPT !.current_example_en = @ \o data \o " "]
    ELSE IF self.li_p_count >= 2 THEN
        [self EXCEPT !.current_example_cn = @ \o text]
    ELSE self

\* self.result["word"] = text
SetWord_Appended(word, text) == word \o text

SetWord(word, text) == text

\* elif self._collecting_en_def and self._current_def and not ...
CollectsEn_AnyBlock(self) ==
    /\ self.current_def # None
    /\ ~self.in_def_cn
    /\ ~self.in_num
    /\ ~self.in_st

CollectsEn(self) ==
    /\ self.collecting_en_def
    /\ self.current_def # None
    /\ ~self.in_def_cn
    /\ ~self.in_num
    /\ ~self.in_st

handle_data(self, data) ==
    LET text == strip(data) IN
    IF text = "" THEN self
    ELSE IF self.in_word_key THEN
        [self EXCEPT !.result.word = SetWord(@, text)]
    ELSE IF self.in_pron_uk THEN
        [self EXCEPT !.current_pron_uk = @ \o data]
    ELSE IF self.in_pron_us THEN
        [self EXCEPT !.current_pron_us = @ \o data]
    ELSE IF self.in_orth THEN
        IF FormPattern(text)
        THEN [self EXCEPT !.result.forms = Append(@, text)]
        ELSE self
    ELSE IF self.in_num /\ self.current_def # None THEN
        [self EXCEPT !.current_def[1].num = text]
    ELSE IF self.in_st /\ self.current_def # None THEN
        [self EXCEPT !.current_def[1].pos = strip(text)]
    ELSE IF self.in_def_cn /\ self.current_def # None THEN
        [self EXCEPT !.current_def[1].cn = IF @ # "" THEN @ \o text ELSE text]
    ELSE IF self.in_li THEN
        DataLi(self, data, text)
    ELSE IF CollectsEn(self)
    THEN [self EXCEPT !.current_def[1].en = @ \o data \o " "]
    ELSE self

----------------------------------------------------------------------------
(* get_result *)

\* " / ".join(prons) if prons else "": a list on the first call, and the
\* string that call stored on any later one
JoinProns_NoSpaces(prons, joined) ==
    IF joined THEN JoinChars("/", prons) ELSE JoinList("/", prons)

JoinProns(prons, joined) ==
    IF joined THEN JoinChars(" / ", prons) ELSE JoinList(" / ", prons)

\* the de-duplication loop: seen is the set, unique_forms the list built
RECURSIVE UniqueLoop(_, _, _)
UniqueLoop(forms, seen, unique_forms) ==
    IF forms = <<>> THEN unique_forms
    ELSE IF Head(forms) \notin seen
         THEN UniqueLoop(Tail(forms), seen \cup {Head(forms)},
                         Append(unique_forms, Head(forms)))
         ELSE UniqueLoop(Tail(forms), seen, unique_forms)

UniqueForms_NoDedup(forms) == forms

UniqueForms(forms) == UniqueLoop(forms, {}, <<>>)

get_result(self) ==
    [self EXCEPT
        !.result.frequency = self.frequency_count,
        !.result.phonetic_uk = JoinProns(@, self.result.joined),
        !.result.phonetic_us = JoinProns(@, self.result.joined),
        !.result.joined = TRUE,
        !.result.forms = UniqueForms(@)]

----------------------------------------------------------------------------
(* The event stream and the history kept about it *)

Flags == {"word_key", "pron_uk", "pron_us", "num", "st", "def_cn", "orth"}

Active(self, f) ==
    IF f = "word_key" THEN self.in_word_key
    ELSE IF f = "pron_uk" THEN self.in_pron_uk
    ELSE IF f = "pron_us" THEN self.in_pron_us
    ELSE IF f = "num" THEN self.in_num
    ELSE IF f = "st" THEN self.in_st
    ELSE IF f = "def_cn" THEN self.in_def_cn
    ELSE self.in_orth

Depth(self) == Len(self.tag_stack)

\* the scopes followed by the history: one per capture flag, and the example
\* block that holds the open definition
Scopes == Flags \cup {"example"}

\* the capture flags that handle_starttag(tag, current_class) sets in self
Activated(self, tag, current_class) ==
    (IF tag = "span" THEN {SpanBranch(current_class)} \cap Flags ELSE {})
    \cup
    (IF tag \in {"a", "span"} /\ IsOrth(self, current_class)
     THEN {"orth"} ELSE {})

\* the scopes that handle_starttag(tag, current_class) opens
Opened(self, tag, current_class) ==
    Activated(self, tag, current_class)
    \cup
    (IF tag = "div" /\ DivBranch(current_class) = "example"
     THEN {"example"} ELSE {})

StartEvent(tag, current_class) ==
    [kind |-> "start", tag |-> tag, class |-> current_class, data |-> ""]

EndEvent(tag) == [kind |-> "end", tag |-> tag, class |-> "", data |-> ""]

DataEvent(data) == [kind |-> "data", tag |-> "", class |-> "", data |-> data]

\* the last handler call (the initial value stands for "none yet")
Last == IF trace = <<>> THEN [kind |-> "none", tag |-> "", class |-> "", data |-> ""]
        ELSE trace[Len(trace)]

\* at_open is the result record as it stood when the frame was pushed, inner
\* the flags activated by open events received since
NewScope(depth, result) ==
    [depth |-> depth, at_open |-> result, text |-> "", nonblank |-> FALSE,
     inner |-> {}]

\* no call of parse_collins_html made yet
NoCall ==
    [html |-> "", pending |-> <<>>, exc |-> "", entries |-> <<>>,
     returned |-> <<>>]

Init ==
    /\ parser = CollinsHTMLParser
    /\ trace = <<>>
    /\ pc = "feed"
    /\ act_depth = [f \in Flags |-> 0]
    /\ scope = [f \in Scopes |-> None]
    /\ well = TRUE
    /\ call = NoCall
    /\ job = None

\* HTMLParser calls handle_starttag(tag, attrs) with attrs' class value
StartTag(tag, current_class, max) ==
    /\ pc = "feed"
    /\ Len(trace) < max
    /\ parser' = handle_starttag(parser, tag, current_class)
    /\ trace' = Append(trace, StartEvent(tag, current_class))
    /\ act_depth' =
         [f \in Flags |->
            IF f \in Activated(parser, tag, current_class)
            THEN Depth(parser) + 1 ELSE act_depth[f]]
    /\ scope' =
         [f \in Scopes |->
            IF scope[f] = None
            THEN IF f \in Opened(parser, tag, current_class)
                 THEN <<NewScope(Depth(parser) + 1, parser.result)>>
                 ELSE None
            ELSE [scope[f] EXCEPT
                    ![1].inner =
                        @ \cup Opened(parser, tag, current_class)]]
    /\ UNCHANGED <<pc, well, call, job>>

\* HTMLParser calls handle_endtag(tag)
EndTag(tag, max) ==
    /\ pc = "feed"
    /\ Len(trace) < max
    /\ parser' = handle_endtag(parser, tag)
    /\ trace' = Append(trace, EndEvent(tag))
    /\ scope' =
         [f \in Scopes |->
            IF scope[f] # None /\ Depth(parser) = scope[f][1].depth
            THEN None ELSE scope[f]]
    /\ well' = (/\ well
                /\ parser.tag_stack # <<>>
                /\ parser.tag_stack[Depth(parser)][1] = tag)
    /\ UNCHANGED <<pc, act_depth, call, job>>

\* HTMLParser calls handle_data(data)
Data(data, max) ==
    /\ pc = "feed"
    /\ Len(trace) < max
    /\ parser' = handle_data(parser, data)
    /\ trace' = Append(trace, DataEvent(data))
    /\ scope' =
         [f \in Scopes |->
            IF scope[f] = None THEN None
            ELSE [scope[f] EXCEPT ![1].text = @ \o data,
                                  ![1].nonblank = @ \/ strip(data) # ""]]
    /\ UNCHANGED <<pc, act_depth, well, call, job>>

\* parse_collins_html: parser.feed(html) is over, get_result() is called
GetResult ==
    /\ pc = "feed"
    /\ parser' = get_result(parser)
    /\ pc' = "done"
    /\ UNCHANGED <<trace, act_depth, scope, well, call, job>>

\* the step fed one event of this kind to the parser
Fed(kind) == Len(trace') = Len(trace) + 1 /\ Last'.kind = kind

----------------------------------------------------------------------------
(* Spec: entries drawn from the whole vocabulary of the parser *)

MaxEvents == 3

Opens ==
    {<<"span", "word_key">>, <<"span", "pron type_uk">>,
     <<"span", "num">>, <<"span", "level roundRed">>,
     <<"span", "def_cn cn_before">>, <<"span", "cn_after">>,
     <<"div", "collins_en_cn example">>, <<"div", "caption hide_cn">>,
     <<"div", "form_inflected">>, <<"a", "orth">>,
     <<"li", "">>, <<"p", "">>}

Closes == {"span", "div", "a", "li", "p"}

Runs == {"ab", " c "}

Open == \E e \in Opens : StartTag(e[1], e[2], MaxEvents)

Close == \E tag \in Closes : EndTag(tag, MaxEvents)

Text == \E data \in Runs : Data(data, MaxEvents)

Next == Open \/ Close \/ Text \/ GetResult

Spec == Init /\ [][Next]_vars

----------------------------------------------------------------------------
(* C1: the scope stack *)

\* C1: the scope stack never underflows; every open event pushes exactly
\* one frame (the event's tag and class), and every close event received on
\* a non-empty stack removes exactly the top frame, whether or not its tag
\* name equals the tag name of that frame; a close on the empty stack
\* leaves it empty.
C1_StackDiscipline ==
    [][ /\ Depth(parser') >= 0
        /\ Fed("start") =>
             parser'.tag_stack =
                 Append(parser.tag_stack, <<Last'.tag, Last'.class>>)
        /\ (Fed("end") /\ Depth(parser) > 0) =>
             parser'.tag_stack =
                 SubSeq(parser.tag_stack, 1, Depth(parser) - 1)
        /\ (Fed("end") /\ Depth(parser) = 0) => parser'.tag_stack = <<>>
      ]_vars

\* two frames were pushed and a close naming another tag than the top
\* frame's popped the top one
C1_MismatchedClosePops ==
    /\ Len(trace) = 3
    /\ trace[1].kind = "start"
    /\ trace[2].kind = "start"
    /\ trace[3].kind = "end"
    /\ trace[3].tag # trace[2].tag
    /\ parser.tag_stack = <<(<<trace[1].tag, trace[1].class>>)>>

----------------------------------------------------------------------------
(* C2: capture flags and their owning depth *)

MaxFlagEvents == 4

\* a block of inflected forms, and spans of every capture class in it
FlagOpens ==
    {<<"span", "word_key">>, <<"span", "pron type_uk">>,
     <<"span", "pron type_us">>, <<"span", "num">>, <<"span", "st">>,
     <<"span", "def_cn cn_before">>, <<"span", "orth">>, <<"span", "hl">>,
     <<"div", "form_inflected">>}

FlagCloses == {"span", "div"}

OpenFlag == \E e \in FlagOpens : StartTag(e[1], e[2], MaxFlagEvents)

CloseFlag == \E tag \in FlagCloses : EndTag(tag, MaxFlagEvents)

TextFlag == Data("ab", MaxFlagEvents)

NextFlags == OpenFlag \/ CloseFlag \/ TextFlag \/ GetResult

SpecFlags == Init /\ [][NextFlags]_vars

\* flag f goes from active to inactive in this step only if the step is a
\* close event processed at the depth of the open event that activated f
ClearedOnlyAtOwnDepth(f) ==
    (Active(parser, f) /\ ~Active(parser', f)) =>
        (Fed("end") /\ Depth(parser) = act_depth[f])

DepthBound == {"pron_uk", "pron_us", "def_cn", "orth"}

----------------------------------------------------------------------------
(* C4, C5, C6: pronunciation scopes *)

MaxPronEvents == 6

PronOpens == {<<"span", "pron type_uk">>, <<"span", "pron type_us">>}

PronRuns == {"a", "b", " "}

OpenPron == \E e \in PronOpens : StartTag(e[1], e[2], MaxPronEvents)

ClosePron == EndTag("span", MaxPronEvents)

TextPron == \E data \in PronRuns : Data(data, MaxPronEvents)

NextPron == OpenPron \/ ClosePron \/ TextPron \/ GetResult

SpecPron == Init /\ [][NextPron]_vars

\* this step is the close event that pops the frame of flag f's scope
ScopeCloses(f) ==
    /\ Fed("end")
    /\ scope[f] # None
    /\ Depth(parser) = scope[f][1].depth

\* the step appends to the UK list, as it stood when the scope opened, the
\* trimmed concatenation of every run the scope received
UkScopeYieldsItsText ==
    /\ strip(scope["pron_uk"][1].text) # ""
    /\ parser'.result.phonetic_uk =
           Append(scope["pron_uk"][1].at_open.phonetic_uk,
                  strip(scope["pron_uk"][1].text))

\* C4: in a well-nested stream, a UK pronunciation scope that contains a
\* nested UK pronunciation scope is neither terminated nor reset by it: the
\* runs received before, inside and after the inner scope form the one
\* entry appended when the outer scope closes.
C4_OuterPronScopeKeepsAccumulating ==
    [][ (/\ ScopeCloses("pron_uk")
         /\ well'
         /\ "pron_uk" \in scope["pron_uk"][1].inner
         /\ scope["pron_uk"][1].nonblank)
        => UkScopeYieldsItsText ]_vars

\* C5: a UK pronunciation scope that received a non-blank run contributes
\* a non-empty entry equal to the trimmed verbatim concatenation of all the
\* runs received between its open and its close, whitespace-only runs
\* included (stated for scopes with no nested pronunciation scope).
C5_UkEntryIsTrimmedConcatenation ==
    [][ (/\ ScopeCloses("pron_uk")
         /\ scope["pron_uk"][1].inner = {}
         /\ scope["pron_uk"][1].nonblank)
        => UkScopeYieldsItsText ]_vars


\* the length of the first k items, each followed by a 3-character separator
RECURSIVE PrefixLen(_, _)
PrefixLen(items, k) ==
    IF k = 0 THEN 0 ELSE PrefixLen(items, k - 1) + Len(items[k]) + 3

\* str is the items in order with " / " between consecutive ones, and ""
\* when there are none
JoinedWithSlash(str, items) ==
    IF items = <<>> THEN str = ""
    ELSE /\ Len(str) = PrefixLen(items, Len(items)) - 3
         /\ \A k \in 1..Len(items) :
              SubSeq(str, PrefixLen(items, k - 1) + 1,
                     PrefixLen(items, k - 1) + Len(items[k])) = items[k]
         /\ \A k \in 1..(Len(items) - 1) :
              SubSeq(str, PrefixLen(items, k) - 2, PrefixLen(items, k)) = " / "

\* while events are processed the list only grows, by one entry at its end,
\* and only on a close event
GrowsByAppendOnClose(before, after) ==
    \/ after = before
    \/ /\ Fed("end")
       /\ Len(after) = Len(before) + 1
       /\ SubSeq(after, 1, Len(before)) = before

\* C6: the UK (resp. US) pronunciation of the final record is the entries of
\* the scopes, in the order they were appended, joined with " / ", and ""
\* when there are none; until get_result the entries are a list of separate
\* items that only grows by appending, and is never joined.
C6_PronunciationsJoinedAtFinalization ==
    [][ /\ (pc = "feed" /\ pc' = "done") =>
             /\ JoinedWithSlash(parser'.result.phonetic_uk,
                                parser.result.phonetic_uk)
             /\ JoinedWithSlash(parser'.result.phonetic_us,
                                parser.result.phonetic_us)
        /\ pc' = "feed" =>
             /\ ~parser'.result.joined
             /\ GrowsByAppendOnClose(parser.result.phonetic_uk,
                                     parser'.result.phonetic_uk)
             /\ GrowsByAppendOnClose(parser.result.phonetic_us,
                                     parser'.result.phonetic_us)
      ]_vars

\* two UK scopes with different text were closed and the record finalized
C6_TwoEntriesJoined ==
    /\ pc = "done"
    /\ trace = <<StartEvent("span", "pron type_uk"), DataEvent("b"),
                 EndEvent("span"),
                 StartEvent("span", "pron type_uk"), DataEvent("a"),
                 EndEvent("span")>>
    /\ parser.result.phonetic_uk = "b / a"
    /\ parser.result.phonetic_us = ""

----------------------------------------------------------------------------
(* C3, C10: word forms *)

MaxFormEvents == 5

FormOpens == {<<"div", "form_inflected">>, <<"a", "orth">>}

FormCloses == {"a", "div"}

FormRuns == {"ab", "cd", " ab", "a1"}

OpenForm == \E e \in FormOpens : StartTag(e[1], e[2], MaxFormEvents)

CloseForm == \E tag \in FormCloses : EndTag(tag, MaxFormEvents)

TextForm == \E data \in FormRuns : Data(data, MaxFormEvents)

NextForms == OpenForm \/ CloseForm \/ TextForm \/ GetResult

SpecForms == Init /\ [][NextForms]_vars

\* text consists only of letters, hyphens, apostrophes and spaces
OnlyFormCharacters(text) ==
    /\ text # ""
    /\ \A i \in 1..Len(text) :
         \/ CharAt(text, i) \in Letters
         \/ CharAt(text, i) \in {"-", "'", " "}

\* C3: in a well-nested stream, a pattern-matching run that arrives while
\* an outer word-form scope is open, after a word-form scope nested in it
\* was opened and closed, is still appended to the forms list.
C3_OuterFormScopeSurvivesInnerClose ==
    [][ (/\ Fed("data")
         /\ well
         /\ scope["orth"] # None
         /\ "orth" \in scope["orth"][1].inner
         /\ Depth(parser) = scope["orth"][1].depth
         /\ OnlyFormCharacters(strip(Last'.data)))
        => parser'.result.forms =
               Append(parser.result.forms, strip(Last'.data)) ]_vars

FirstIndex(list, x) == CHOOSE i \in 1..Len(list) : 
                          list[i] = x /\ \A j \in 1..(i - 1) : list[j] # x

\* unique is list with every repeat of an earlier element removed
FirstSeenOrder(unique, list) ==
    /\ \A i, j \in 1..Len(unique) : i # j => unique[i] # unique[j]
    /\ {unique[i] : i \in 1..Len(unique)} = {list[i] : i \in 1..Len(list)}
    /\ \A i, j \in 1..Len(unique) :
         i < j => FirstIndex(list, unique[i]) < FirstIndex(list, unique[j])

\* C10: while word-form capture is the active target, a run is appended
\* (trimmed) to the forms list iff it consists only of letters, hyphens,
\* apostrophes and spaces, and nothing else changes the list; the forms of
\* the final record are that list with every repeat of an earlier form
\* removed and first-seen order kept, so they hold no duplicate and no text
\* that fails the pattern.
C10_FormsFilteredAndDeduplicated ==
    [][ /\ (Fed("data") /\ parser.in_orth /\ ~parser.in_word_key
            /\ ~parser.in_pron_uk /\ ~parser.in_pron_us) =>
             parser'.result.forms =
                 IF OnlyFormCharacters(strip(Last'.data))
                 THEN Append(parser.result.forms, strip(Last'.data))
                 ELSE parser.result.forms
        /\ (pc' = "feed" /\ ~(Fed("data") /\ parser.in_orth)) =>
             parser'.result.forms = parser.result.forms
        /\ (pc = "feed" /\ pc' = "done") =>
             /\ FirstSeenOrder(parser'.result.forms, parser.result.forms)
             /\ \A i \in 1..Len(parser'.result.forms) :
                  OnlyFormCharacters(parser'.result.forms[i])
      ]_vars

\* the captures ab, cd, ab (the last one untrimmed) yield [ab, cd]
C10_RepeatRemoved ==
    /\ pc = "done"
    /\ Len(trace) = 5
    /\ trace[3] = DataEvent("ab")
    /\ trace[4] = DataEvent("cd")
    /\ trace[5] = DataEvent(" ab")
    /\ parser.result.forms = <<"ab", "cd">>

----------------------------------------------------------------------------
(* C7: the Chinese gloss and "cn_after" *)

MaxGlossEvents == 4

GlossOpens ==
    {<<"div", "collins_en_cn example">>, <<"span", "def_cn cn_before">>,
     <<"span", "def_cn cn_after">>, <<"span", "def_cn cn_before cn_after">>}

GlossCloses == {"span", "div"}

OpenGloss == \E e \in GlossOpens : StartTag(e[1], e[2], MaxGlossEvents)

CloseGloss == \E tag \in GlossCloses : EndTag(tag, MaxGlossEvents)

TextGloss == Data("x", MaxGlossEvents)

NextGloss == OpenGloss \/ CloseGloss \/ TextGloss \/ GetResult

SpecGloss == Init /\ [][NextGloss]_vars

\* some frame on the stack has a class containing "cn_after"
InsideCnAfter(self) ==
    \E i \in 1..Depth(self) : In("cn_after", self.tag_stack[i][2])

\* C7: a text run received inside a scope whose class contains "cn_after"
\* is never added to the Chinese gloss of the open Sense Definition.
C7_CnAfterNeverInChineseGloss ==
    [][ (Fed("data") /\ InsideCnAfter(parser) /\ parser.current_def # None)
        => parser'.current_def[1].cn = parser.current_def[1].cn ]_vars

----------------------------------------------------------------------------
(* C8, C9: classification of the class attribute *)

MaxClassEvents == 3

ClassTags == {"span", "div"}

Classes ==
    {"pron type_uk", "type_uk pron", "pron", "word_key pron type_uk",
     "pron type_us", "level roundRed", "roundRed level", "level",
     "word_key level roundRed"}

OpenClass ==
    \E tag \in ClassTags, c \in Classes : StartTag(tag, c, MaxClassEvents)

CloseClass == EndTag("span", MaxClassEvents)

TextClass == Data("a", MaxClassEvents)

NextClass == OpenClass \/ CloseClass \/ TextClass \/ GetResult

SpecClass == Init /\ [][NextClass]_vars

\* the step changed nothing of the parser but its stack
OnlyStackChanged ==
    [parser' EXCEPT !.tag_stack = parser.tag_stack] = parser

\* C8 as stated (for the open events of a span): an open event activates
\* UK pronunciation accumulation exactly when its class contains both
\* "pron" and "type_uk", wherever they stand; a class containing "pron"
\* without a type qualifier activates no accumulation.
C8_UkActivatedBySubstringsAnywhere ==
    [][ (Fed("start") /\ Last'.tag = "span") =>
          /\ ~parser.in_pron_uk =>
               (parser'.in_pron_uk <=>
                  (In("pron", Last'.class) /\ In("type_uk", Last'.class)))
          /\ (/\ In("pron", Last'.class)
              /\ ~In("type_uk", Last'.class)
              /\ ~In("type_us", Last'.class)) =>
               \A f \in Flags : Active(parser', f) = Active(parser, f)
      ]_vars

\* C8 (amended): an open event activates UK pronunciation accumulation
\* exactly when its tag is span and its class contains the contiguous text
\* "pron type_uk" and does not contain "word_key"; an open event whose
\* class is "pron" alone changes nothing but the stack.
C8_UkActivatedByContiguousClass ==
    [][ Fed("start") =>
          /\ ~parser.in_pron_uk =>
               (parser'.in_pron_uk <=>
                  (/\ Last'.tag = "span"
                   /\ In("pron type_uk", Last'.class)
                   /\ ~In("word_key", Last'.class)))
          /\ Last'.class = "pron" => OnlyStackChanged
      ]_vars

\* a span whose class holds the two words in the other order left the flag
\* inactive, and a span of class "pron type_uk" opened inside it set it
C8_ContiguousClassActivates ==
    /\ trace = <<StartEvent("span", "type_uk pron"),
                 StartEvent("span", "pron type_uk")>>
    /\ parser.in_pron_uk
    /\ parser.pron_uk_depth = 2

\* the open events so far that satisfy test(tag, class)
OpenEvents(test(_, _)) ==
    {i \in 1..Len(trace) :
        trace[i].kind = "start" /\ test(trace[i].tag, trace[i].class)}

HasLevelRoundRed(tag, c) == In("level", c) /\ In("roundRed", c)

SpanHasLevelRoundRed(tag, c) == tag = "span" /\ HasLevelRoundRed(tag, c)

ReachesStarBranch(tag, c) ==
    /\ tag = "span"
    /\ HasLevelRoundRed(tag, c)
    /\ ~In("word_key", c)
    /\ ~In("pron type_uk", c)
    /\ ~In("pron type_us", c)

\* C9 as stated (for the open events of a span): the frequency of the
\* final record is the number of open events whose class contains both
\* "level" and "roundRed", whatever else the class contains.
C9_StarsCountEveryLevelRoundRed ==
    pc = "done" =>
        parser.result.frequency =
            Cardinality(OpenEvents(SpanHasLevelRoundRed))

\* C9 (amended): the frequency of the final record is the number of open
\* events of a span whose class contains both "level" and "roundRed" and
\* none of "word_key", "pron type_uk", "pron type_us", at whatever depth and
\* whichever flags are active.
C9_StarsCountSpansReachingTheBranch ==
    pc = "done" =>
        parser.result.frequency = Cardinality(OpenEvents(ReachesStarBranch))

\* two stars counted at depths 2 and 3, inside an open pronunciation scope
C9_TwoStarsNested ==
    /\ pc = "done"
    /\ trace = <<StartEvent("span", "pron type_uk"),
                 StartEvent("span", "level roundRed"),
                 StartEvent("span", "roundRed level")>>
    /\ parser.in_pron_uk
    /\ parser.result.frequency = 2


----------------------------------------------------------------------------
(* C11, C12: sense definitions *)

MaxSenseEvents == 5

\* example blocks, the caption of a sense, and the spans of its number and
\* its Chinese gloss
SenseOpens ==
    {<<"div", "collins_en_cn example">>, <<"div", "caption hide_cn">>,
     <<"span", "num">>, <<"span", "def_cn cn_before">>}

SenseCloses == {"div", "span"}

OpenSense == \E e \in SenseOpens : StartTag(e[1], e[2], MaxSenseEvents)

CloseSense == \E tag \in SenseCloses : EndTag(tag, MaxSenseEvents)

TextSense == Data("ab", MaxSenseEvents)

NextSense == OpenSense \/ CloseSense \/ TextSense \/ GetResult

SpecSense == Init /\ [][NextSense]_vars

\* C11: every sense definition in the definitions list of the result has a
\* non-empty English gloss or a non-empty Chinese gloss; a close that ends
\* the open definition while both its glosses are empty leaves the list as
\* it was, whatever number, part of speech or examples the definition holds.
C11_KeptDefinitionsHaveAGloss ==
    /\ [](\A i \in 1..Len(parser.result.definitions) :
             \/ parser.result.definitions[i].en # ""
             \/ parser.result.definitions[i].cn # "")
    /\ [][ (/\ Fed("end")
            /\ parser.current_def # None
            /\ parser'.current_def = None
            /\ parser.current_def[1].en = ""
            /\ parser.current_def[1].cn = "")
           => parser'.result.definitions = parser.result.definitions ]_vars

\* a definition that held a number but no gloss was closed and dropped
C11_NumberedDefinitionDropped ==
    /\ trace = << StartEvent("div", "collins_en_cn example"),
                  StartEvent("span", "num"), DataEvent("ab"),
                  EndEvent("span"), EndEvent("div") >>
    /\ parser.current_def = None
    /\ parser.result.definitions = <<>>

\* C12: a sense definition is opened by the open event of an example block
\* and is closed (appended to the definitions when it has a gloss) only by
\* the close event that pops the frame of that block: an open event received
\* while it is open, an example block nested in it included, leaves the open
\* definition as it is, and a close event that pops any other frame neither
\* ends it nor changes the definitions; the close that ends it appends it
\* when it has a gloss.
C12_DefinitionLivesWithItsFrame ==
    [][ /\ (Fed("start") /\ "example" \in Opened(parser, Last'.tag, Last'.class)
              /\ scope["example"] = None)
           => parser'.current_def = <<NewDef>>
        /\ (Fed("start") /\ scope["example"] # None)
           => /\ parser'.current_def = parser.current_def
              /\ parser'.result.definitions = parser.result.definitions
        /\ (Fed("end") /\ scope["example"] # None
              /\ Depth(parser) # scope["example"][1].depth)
           => /\ parser'.current_def = parser.current_def
              /\ parser'.result.definitions = parser.result.definitions
        /\ (Fed("end") /\ parser.current_def # None
              /\ parser'.current_def = None)
           => /\ scope["example"] # None
              /\ Depth(parser) = scope["example"][1].depth
              /\ parser'.result.definitions =
                   IF \/ parser.current_def[1].en # ""
                      \/ parser.current_def[1].cn # ""
                   THEN Append(parser.result.definitions,
                               parser.current_def[1])
                   ELSE parser.result.definitions
      ]_vars

----------------------------------------------------------------------------
(* C13, C14: the example sentences of a list item *)

MaxExampleEvents == 5

\* an example block, its list items and their paragraphs
ExampleOpens ==
    {<<"div", "collins_en_cn example">>, <<"li", "">>, <<"p", "">>}

ExampleCloses == {"div", "li", "p"}

OpenExample == \E e \in ExampleOpens : StartTag(e[1], e[2], MaxExampleEvents)

CloseExample == \E tag \in ExampleCloses : EndTag(tag, MaxExampleEvents)

TextExample == Data("a", MaxExampleEvents)

NextExample == OpenExample \/ CloseExample \/ TextExample \/ GetResult

SpecExample == Init /\ [][NextExample]_vars

\* the positions of the frames of this tag on the scope stack
FramesOf(self, tag) ==
    {i \in 1..Depth(self) : self.tag_stack[i][1] = tag}

\* a list item is being captured for the open definition
ItemOpen(self) ==
    self.in_li /\ self.current_def # None /\ FramesOf(self, "li") # {}

\* a paragraph frame lies above the innermost list item frame
InParagraph(self) ==
    \E i \in FramesOf(self, "li") :
        /\ \A j \in FramesOf(self, "li") : j <= i
        /\ \E k \in FramesOf(self, "p") : k > i

\* C13: while a list item is captured for the open definition, a text run
\* received inside its first paragraph is added to the English sentence
\* followed by one space (the sentence is trimmed when the item closes, so
\* the runs end up joined by single spaces), a run received inside its second
\* or a later paragraph is added to the Chinese sentence with no separator,
\* and a run received inside the item but outside every paragraph changes
\* neither sentence.
C13_SentencesComeFromParagraphs ==
    [][ (Fed("data") /\ ItemOpen(parser) /\ strip(Last'.data) # "")
        => IF InParagraph(parser) /\ parser.li_p_count = 1 THEN
               /\ parser'.current_example_en =
                      parser.current_example_en \o Last'.data \o " "
               /\ parser'.current_example_cn = parser.current_example_cn
           ELSE IF InParagraph(parser) /\ parser.li_p_count >= 2 THEN
               /\ parser'.current_example_cn =
                      parser.current_example_cn \o strip(Last'.data)
               /\ parser'.current_example_en = parser.current_example_en
           ELSE
               /\ parser'.current_example_en = parser.current_example_en
               /\ parser'.current_example_cn = parser.current_example_cn
      ]_vars

\* the examples of the open definition and of the definitions kept so far
AllExamples(self) ==
    (IF self.current_def = None THEN {}
     ELSE {self.current_def[1].examples[i] :
              i \in 1..Len(self.current_def[1].examples)})
    \cup
    UNION {{self.result.definitions[d].examples[i] :
               i \in 1..Len(self.result.definitions[d].examples)} :
           d \in 1..Len(self.result.definitions)}

----------------------------------------------------------------------------
(* C15, C16: malformed input *)

\* the fields that text runs are recorded into
Fields == {"word", "pron_uk", "pron_us", "forms", "num", "pos", "cn", "en",
           "example"}

FieldValue(self, field) ==
    CASE field = "word" -> <<self.result.word>>
      [] field = "pron_uk" -> <<self.current_pron_uk>>
      [] field = "pron_us" -> <<self.current_pron_us>>
      [] field = "forms" -> self.result.forms
      [] field = "num" ->
            IF self.current_def = None THEN <<>> ELSE <<self.current_def[1].num>>
      [] field = "pos" ->
            IF self.current_def = None THEN <<>> ELSE <<self.current_def[1].pos>>
      [] field = "cn" ->
            IF self.current_def = None THEN <<>> ELSE <<self.current_def[1].cn>>
      [] field = "en" ->
            IF self.current_def = None THEN <<>> ELSE <<self.current_def[1].en>>
      [] OTHER -> <<self.current_example_en, self.current_example_cn>>

\* the frame <<tag, class>> is one that opens the capture of the field
Classified(field, frame) ==
    CASE field = "word" -> frame[1] = "span" /\ IsWordKey(frame[2])
      [] field = "pron_uk" -> frame[1] = "span" /\ IsPronUk(frame[2])
      [] field = "pron_us" -> frame[1] = "span" /\ IsPronUs(frame[2])
      [] field = "forms" -> frame[1] \in {"a", "span"} /\ In("orth", frame[2])
      [] field = "num" -> frame[1] = "span" /\ IsNum(frame[2])
      [] field = "pos" -> frame[1] = "span" /\ IsSt(frame[2])
      [] field = "cn" -> frame[1] = "span" /\ IsDefCn(frame[2])
      [] field = "en" -> frame[1] = "div" /\ DivBranch(frame[2]) = "caption"
      [] OTHER -> frame[1] = "li"

FrameOnStack(self, field) ==
    \E i \in 1..Depth(self) : Classified(field, self.tag_stack[i])

\* C15: whatever the sequence of events, unbalanced scopes and mismatched
\* closes included, a text run changes a field only while a frame
\* classified for that field is on the scope stack.
C15_TextRecordedOnlyUnderItsFrame ==
    [][ Fed("data")
        => \A field \in Fields :
              FieldValue(parser', field) # FieldValue(parser, field)
              => FrameOnStack(parser, field) ]_vars

\* C16: a close event received while the scope stack is empty changes
\* nothing: the stack, every capture flag, depth and buffer, the open
\* definition and the result are left as they were.
C16_CloseOnEmptyStackIsNoOp ==
    [][ (Fed("end") /\ Depth(parser) = 0) => parser' = parser ]_vars

\* a span close was received on the empty stack while the headword flag,
\* left set by a mismatched close, was active, and the flag is still set
C16_CloseReceivedOnEmptyStack ==
    /\ trace = << StartEvent("span", "word_key"), EndEvent("div"),
                  EndEvent("span") >>
    /\ parser.tag_stack = <<>>
    /\ parser.in_word_key

----------------------------------------------------------------------------
(* parse_collins_html *)

\* the class value None of an attribute written without a value, as in
\* <span class>; no class string of the model equals it
NoneClass == "<None>"

\* "word_key" in None, and every other substring test on None, raises
\* TypeError: in handle_starttag for a span or div, and for an a inside a
\* block of inflected forms; in handle_endtag for a div close that tests the
\* class of the top frame
Raises(self, e) ==
    \/ /\ e.kind = "start"
       /\ e.class = NoneClass
       /\ \/ e.tag \in {"span", "div"}
          \/ e.tag = "a" /\ self.in_form_inflected
    \/ /\ e.kind = "end"
       /\ e.tag = "div"
       /\ self.tag_stack # <<>>
       /\ self.tag_stack[Depth(self)][2] = NoneClass
       /\ (self.in_example \/ self.in_caption \/ self.in_form_inflected)

\* str(e) of that TypeError
TypeErrorMessage == "argument of type 'NoneType' is not iterable"

\* except Exception: the exception classes it catches
IsException(exc) == exc \in {"TypeError"}

\* one handler call of parser.feed
Apply(self, e) ==
    IF e.kind = "start" THEN handle_starttag(self, e.tag, e.class)
    ELSE IF e.kind = "end" THEN handle_endtag(self, e.tag)
    ELSE handle_data(self, e.data)

\* parser.feed(html): the handler calls in order, up to the first that raises
RECURSIVE feed(_, _)
feed(self, events) ==
    IF events = <<>> THEN [parser |-> self, exc |-> ""]
    ELSE IF Raises(self, Head(events)) THEN [parser |-> self, exc |-> "TypeError"]
    ELSE feed(Apply(self, Head(events)), Tail(events))

\* html[:500]
SnippetLen == 500

Slice_Whole(html, n) == html

Slice(html, n) == IF Len(html) <= n THEN html ELSE SubSeq(html, 1, n)

\* the dictionary that get_result returns
SixFields ==
    {"word", "phonetic_uk", "phonetic_us", "frequency", "forms",
     "definitions"}

Record(result) == [k \in SixFields |-> result[k]]

\* {"error": str(e), "raw_html": html[:500]}
ErrorRecord(message, html) ==
    [error |-> message, raw_html |-> Slice(html, SnippetLen)]

\* a text of n characters
RECURSIVE Pad(_)
Pad(n) ==
    IF n = 0 THEN ""
    ELSE IF n % 2 = 0 THEN LET half == Pad(n \div 2) IN half \o half
    ELSE "x" \o Pad(n - 1)

\* the entries parsed in the model
EmptyEntry == ""
HeadwordEntry == "<span class=\"word_key\">ab</span>"
UnclosedEntry == "<span class=\"word_key\">ab"
TextEntry == "cd"
PlainEntry == "ab"
NoValueEntry == "<span class>a</span>"
LongEntry == "<span class>" \o Pad(SnippetLen)
NoValueFrameEntry == "<div class=\"collins_en_cn example\"><p class></div>"

Entries ==
    {EmptyEntry, HeadwordEntry, UnclosedEntry, TextEntry, PlainEntry,
     NoValueEntry, LongEntry, NoValueFrameEntry}

\* the handler calls that HTMLParser.feed makes for these entries when none
\* of them raises
Tokens(html) ==
    CASE html = HeadwordEntry ->
            << StartEvent("span", "word_key"), DataEvent("ab"),
               EndEvent("span") >>
      [] html = UnclosedEntry ->
            << StartEvent("span", "word_key"), DataEvent("ab") >>
      [] html = TextEntry -> << DataEvent("cd") >>
      [] html = PlainEntry -> << DataEvent("ab") >>
      [] html = NoValueEntry ->
            << StartEvent("span", NoneClass), DataEvent("a"),
               EndEvent("span") >>
      [] html = LongEntry ->
            << StartEvent("span", NoneClass), DataEvent(Pad(SnippetLen)) >>
      [] html = NoValueFrameEntry ->
            << StartEvent("div", "collins_en_cn example"),
               StartEvent("p", NoneClass), EndEvent("div") >>
      [] OTHER -> <<>>

\* parse_collins_html(html) as one call
parse_collins_html(html) ==
    LET fed == feed(CollinsHTMLParser, Tokens(html))
    IN  IF fed.exc = "" THEN Record(get_result(fed.parser).result)
        ELSE ErrorRecord(TypeErrorMessage, html)

MaxCalls == 2

\* parser = CollinsHTMLParser()
FreshParser_Reused == parser

FreshParser == CollinsHTMLParser

InitParse ==
    /\ parser = CollinsHTMLParser
    /\ trace = <<>>
    /\ pc = "idle"
    /\ act_depth = [f \in Flags |-> 0]
    /\ scope = [f \in Scopes |-> None]
    /\ well = TRUE
    /\ call = NoCall
    /\ job = None

\* parse_collins_html(html) is called: a parser is constructed
CallParse(html) ==
    /\ pc = "idle"
    /\ Len(call.entries) < MaxCalls
    /\ parser' = FreshParser
    /\ trace' = <<>>
    /\ call' = [call EXCEPT !.html = html, !.pending = Tokens(html),
                            !.exc = "", !.entries = Append(@, html)]
    /\ pc' = "feeding"
    /\ UNCHANGED <<act_depth, scope, well, job>>

\* parser.feed(html) makes its next handler call, which returns
FeedEvent ==
    /\ pc = "feeding"
    /\ call.pending # <<>>
    /\ ~Raises(parser, Head(call.pending))
    /\ parser' = Apply(parser, Head(call.pending))
    /\ trace' = Append(trace, Head(call.pending))
    /\ call' = [call EXCEPT !.pending = Tail(@)]
    /\ UNCHANGED <<pc, act_depth, scope, well, job>>

\* parser.feed(html) makes its next handler call, which raises
FeedRaises ==
    /\ pc = "feeding"
    /\ call.pending # <<>>
    /\ Raises(parser, Head(call.pending))
    /\ call' = [call EXCEPT !.exc = "TypeError"]
    /\ pc' = "except"
    /\ UNCHANGED <<parser, trace, act_depth, scope, well, job>>

\* return parser.get_result()
ReturnResult ==
    /\ pc = "feeding"
    /\ call.pending = <<>>
    /\ parser' = get_result(parser)
    /\ call' = [call EXCEPT !.returned = Append(@, Record(parser'.result))]
    /\ pc' = "idle"
    /\ UNCHANGED <<trace, act_depth, scope, well, job>>

\* except Exception as e: return {"error": ..., "raw_html": ...}
ReturnError ==
    /\ pc = "except"
    /\ IsException(call.exc)
    /\ call' = [call EXCEPT
                  !.returned = Append(@, ErrorRecord(TypeErrorMessage,
                                                     call.html))]
    /\ pc' = "idle"
    /\ UNCHANGED <<parser, trace, act_depth, scope, well, job>>

Call == \E html \in Entries : CallParse(html)

NextParse == Call \/ FeedEvent \/ FeedRaises \/ ReturnResult \/ ReturnError

SpecParse == InitParse /\ [][NextParse]_vars

----------------------------------------------------------------------------
(* C17, C18, C19: the records that parse_collins_html returns *)

\* C17: parse_collins_html never raises: an exception raised while the
\* entry is processed is one that the call catches, and every record
\* returned is either a full record of the six fields or, when (and only
\* when) processing failed, a record of an error message and a snippet that
\* is the first min(500, length) characters of the markup.
C17_ReturnsRecordOrErrorWithSnippet ==
    /\ (pc = "except" => IsException(call.exc))
    /\ \A k \in 1..Len(call.returned) :
          LET r == call.returned[k]
              html == call.entries[k]
              failed == feed(CollinsHTMLParser, Tokens(html)).exc # ""
          IN  \/ /\ ~failed
                 /\ DOMAIN r = SixFields
              \/ /\ failed
                 /\ DOMAIN r = {"error", "raw_html"}
                 /\ r.error # ""
                 /\ Len(r.raw_html) =
                       (IF Len(html) < 500 THEN Len(html) ELSE 500)
                 /\ r.raw_html = SubSeq(html, 1, Len(r.raw_html))

\* an entry of more than 500 characters failed and its record holds the
\* first 500 of them
C17_LongEntryFailed ==
    \E k \in 1..Len(call.returned) :
        /\ Len(call.entries[k]) > 500
        /\ DOMAIN call.returned[k] = {"error", "raw_html"}
        /\ Len(call.returned[k].raw_html) = 500

\* C18: the record returned for an empty entry, and for an entry from which
\* no headword was captured, is not an ordinary record: it carries an error
\* indicator and a snippet of the markup.
C18_NoHeadwordIsFlagged ==
    \A k \in 1..Len(call.returned) :
        LET r == call.returned[k]
            html == call.entries[k]
        IN  (\/ html = ""
             \/ ("word" \in DOMAIN r /\ r.word = ""))
            => /\ "error" \in DOMAIN r
               /\ "raw_html" \in DOMAIN r
               /\ r.raw_html = Slice(html, SnippetLen)

\* C19: the record returned for an entry is the one that parsing it alone,
\* with a parser just constructed, gives, whatever entries were parsed
\* before it; the same entry parsed twice gives equal records.
C19_RecordDependsOnTheEntryOnly ==
    /\ \A k \in 1..Len(call.returned) :
          call.returned[k] = parse_collins_html(call.entries[k])
    /\ \A j, k \in 1..Len(call.returned) :
          call.entries[j] = call.entries[k]
          => call.returned[j] = call.returned[k]

\* an entry that left the headword capture active was parsed, and the text
\* of the entry parsed after it was not taken as a headword
C19_NothingLeftFromTheEntryBefore ==
    /\ Len(call.returned) = 2
    /\ call.entries = << UnclosedEntry, TextEntry >>
    /\ call.returned[1].word = "ab"
    /\ call.returned[2].word = ""

----------------------------------------------------------------------------
(* import_collins and import_etyma *)

\* html.startswith('@@@LINK=')
LinkPrefix == "@@@LINK="

startswith(s, prefix) ==
    Len(s) >= Len(prefix) /\ SubSeq(s, 1, Len(prefix)) = prefix

\* link_target = html[8:].strip()
LinkTarget_Untrimmed(html) ==
    IF Len(html) <= 8 THEN "" ELSE SubSeq(html, 9, Len(html))

LinkTarget(html) ==
    strip(IF Len(html) <= 8 THEN "" ELSE SubSeq(html, 9, Len(html)))

\* re.match(r'^([a-zA-Z][a-zA-Z\-\' ]*)', first_line): the length of the match
RECURSIVE MatchLen(_, _)
MatchLen(s, n) ==
    IF n < Len(s) /\ CharAt(s, n + 1) \in (IF n = 0 THEN Letters ELSE FormChars)
    THEN MatchLen(s, n + 1)
    ELSE n

\* parse_etyma_html on markup that holds no <br>, no font element, no star
\* and no white space outside its tags, as the entries of the model do:
\* only the headword pattern can match, every other field keeps its default
parse_etyma_html(html) ==
    [word |-> IF MatchLen(html, 0) = 0 THEN ""
              ELSE strip(SubSeq(html, 1, MatchLen(html, 0))),
     pos |-> "", meaning |-> "", etymology |-> "", frequency |-> 0,
     stars |-> 0, root |-> "", related |-> <<>>]

\* json.dumps(parsed, ensure_ascii=False): the JSON text of the record,
\* kept as the record it encodes and told apart from a plain string
dumps(parsed) == [json |-> parsed]

MaxItems == 2

\* the headwords and the raw contents of the dictionary file
Keys == {"ab", "00ab"}

LinkEntry == "@@@LINK= ab\n"

Values == {HeadwordEntry, NoValueEntry, PlainEntry, LinkEntry}

RECURSIVE ItemLists(_)
ItemLists(n) ==
    IF n = 0 THEN {<<>>}
    ELSE ItemLists(n - 1)
         \cup {Append(l, <<k, v>>) :
                 l \in {m \in ItemLists(n - 1) : Len(m) = n - 1},
                 k \in Keys, v \in Values}

\* imported = 0; links = 0; items = list(mdx.items())
NewJob(dict, items) ==
    [dict |-> dict, items |-> items, next |-> 1, imported |-> 0,
     links |-> 0, rows |-> <<>>, parses |-> <<>>, row_of |-> <<>>]

InitImport ==
    /\ parser = CollinsHTMLParser
    /\ trace = <<>>
    /\ pc = "import"
    /\ act_depth = [f \in Flags |-> 0]
    /\ scope = [f \in Scopes |-> None]
    /\ well = TRUE
    /\ call = NoCall
    /\ job \in {NewJob(dict, items) :
                  dict \in {"collins", "etyma"}, items \in ItemLists(MaxItems)}

\* if word.startswith('00'): continue   (import_etyma only)
Skipped(dict, word) == dict = "etyma" /\ startswith(word, "00")

\* one iteration of the loop over the items; parses and row_of are history:
\* the number of parser calls made for the item and the row inserted for it
ImportItem ==
    /\ pc = "import"
    /\ job.next <= Len(job.items)
    /\ LET word == job.items[job.next][1]
           html == job.items[job.next][2]
           link == [word |-> word, content |-> "{}", is_link |-> 1,
                    link_target |-> <<LinkTarget(html)>>]
           parsed == IF job.dict = "collins" THEN parse_collins_html(html)
                     ELSE parse_etyma_html(html)
           row == [word |-> word, content |-> dumps(parsed), is_link |-> 0,
                   link_target |-> None]
       IN  job' =
             IF Skipped(job.dict, word) THEN
                 [job EXCEPT !.next = @ + 1,
                             !.parses = Append(@, 0),
                             !.row_of = Append(@, <<>>)]
             ELSE IF startswith(html, LinkPrefix) THEN
                 [job EXCEPT !.next = @ + 1,
                             !.rows = Append(@, link),
                             !.links = @ + 1,
                             !.parses = Append(@, 0),
                             !.row_of = Append(@, <<link>>)]
             ELSE
                 [job EXCEPT !.next = @ + 1,
                             !.rows = Append(@, row),
                             !.imported = @ + 1,
                             !.parses = Append(@, 1),
                             !.row_of = Append(@, <<row>>)]
    /\ UNCHANGED <<parser, trace, pc, act_depth, scope, well, call>>

\* conn.commit(); return imported, links
Commit ==
    /\ pc = "import"
    /\ job.next > Len(job.items)
    /\ pc' = "committed"
    /\ UNCHANGED <<parser, trace, act_depth, scope, well, call, job>>

NextImport == ImportItem \/ Commit

SpecImport == InitImport /\ [][NextImport]_vars

\* the items handled so far
Handled == 1..(job.next - 1)

\* C20 (as stated): every entry of a bulk import whose raw content starts
\* with the redirect prefix is stored, without a parser call, as a link row
\* of its headword, the trimmed remainder as target and empty content;
\* every other entry is parsed exactly once and stored as a non-link row
\* with no target; each entry handled is counted in exactly one of the
\* imported and link counters.
C20_EveryEntryStoredAndCounted ==
    /\ \A k \in Handled :
          LET word == job.items[k][1]
              html == job.items[k][2]
          IN  IF startswith(html, LinkPrefix) THEN
                  /\ job.parses[k] = 0
                  /\ job.row_of[k] =
                       << [word |-> word, content |-> "{}", is_link |-> 1,
                           link_target |->
                              <<strip(SubSeq(html, 9, Len(html)))>>] >>
              ELSE
                  /\ job.parses[k] = 1
                  /\ Len(job.row_of[k]) = 1
                  /\ job.row_of[k][1].word = word
                  /\ job.row_of[k][1].is_link = 0
                  /\ job.row_of[k][1].link_target = None
    /\ job.links =
          Cardinality({k \in Handled : startswith(job.items[k][2], LinkPrefix)})
    /\ job.imported =
          Cardinality({k \in Handled : ~startswith(job.items[k][2], LinkPrefix)})
    /\ Len(job.rows) = job.imported + job.links

\* C20 (amended): every entry that the import does not skip is stored,
\* without a parser call, as a link row of its headword, the trimmed
\* remainder as target and the content "{}" when its raw content starts with
\* the redirect prefix, and is otherwise parsed exactly once and stored as a
\* non-link row with no target; it is counted in exactly one of the imported
\* and link counters.  import_etyma skips the entries whose headword starts
\* with "00": they are neither parsed, nor stored, nor counted.
C20_EveryEntryNotSkippedStoredAndCounted ==
    /\ \A k \in Handled :
          LET word == job.items[k][1]
              html == job.items[k][2]
          IN  IF Skipped(job.dict, word) THEN
                  /\ job.parses[k] = 0
                  /\ job.row_of[k] = <<>>
              ELSE IF startswith(html, LinkPrefix) THEN
                  /\ job.parses[k] = 0
                  /\ job.row_of[k] =
                       << [word |-> word, content |-> "{}", is_link |-> 1,
                           link_target |->
                              <<strip(SubSeq(html, 9, Len(html)))>>] >>
              ELSE
                  /\ job.parses[k] = 1
                  /\ Len(job.row_of[k]) = 1
                  /\ job.row_of[k][1].word = word
                  /\ job.row_of[k][1].is_link = 0
                  /\ job.row_of[k][1].link_target = None
    /\ job.links =
          Cardinality({k \in Handled :
                         /\ ~Skipped(job.dict, job.items[k][1])
                         /\ startswith(job.items[k][2], LinkPrefix)})
    /\ job.imported =
          Cardinality({k \in Handled :
                         /\ ~Skipped(job.dict, job.items[k][1])
                         /\ ~startswith(job.items[k][2], LinkPrefix)})
    /\ Len(job.rows) = job.imported + job.links

\* import_etyma skipped an entry, stored a redirect entry as a link row with
\* the trimmed target, and returned
C20_SkippedThenLinkStored ==
    /\ pc = "committed"
    /\ job.dict = "etyma"
    /\ job.items = << <<"00ab", PlainEntry>>, <<"ab", LinkEntry>> >>
    /\ job.rows = << [word |-> "ab", content |-> "{}", is_link |-> 1,
                      link_target |-> <<"ab">>] >>
    /\ job.imported = 0
    /\ job.links = 1

\* the parse of the entry fails: parser.feed raises in parse_collins_html
ParseFails(dict, html) ==
    /\ dict = "collins"
    /\ ~startswith(html, LinkPrefix)
    /\ feed(CollinsHTMLParser, Tokens(html)).exc # ""

\* C21: an entry whose parse fails does not abort the import: every entry
\* after it is handled and, unless skipped, stored, and the import returns
\* after the last one; the failed entry is counted as a failure, so that
\* the imported counter is the number of entries parsed successfully.
C21_FailedParseCountedAsFailure ==
    /\ (pc = "committed" => job.next = Len(job.items) + 1)
    /\ \A k \in Handled :
          ~Skipped(job.dict, job.items[k][1]) => Len(job.row_of[k]) = 1
    /\ job.imported =
          Cardinality({k \in Handled :
                         /\ ~Skipped(job.dict, job.items[k][1])
                         /\ ~startswith(job.items[k][2], LinkPrefix)
                         /\ ~ParseFails(job.dict, job.items[k][2])})

----------------------------------------------------------------------------
(* C22, C23, C25: the English gloss and the routing of text runs *)

MaxEnglishEvents == 5

\* an example block, its caption, and the spans of the headword, the sense
\* number, the part of speech and the Chinese gloss
EnglishOpens ==
    {<<"div", "collins_en_cn example">>, <<"div", "caption hide_cn">>,
     <<"span", "word_key">>, <<"span", "num">>, <<"span", "st">>,
     <<"span", "def_cn cn_before">>}

EnglishCloses == {"div", "span"}

OpenEnglish == \E e \in EnglishOpens : StartTag(e[1], e[2], MaxEnglishEvents)

CloseEnglish == \E tag \in EnglishCloses : EndTag(tag, MaxEnglishEvents)

TextEnglish == Data("ab", MaxEnglishEvents)

NextEnglish == OpenEnglish \/ CloseEnglish \/ TextEnglish \/ GetResult

SpecEnglish == Init /\ [][NextEnglish]_vars

\* the English glosses of the open definition and of the definitions kept
EnglishGlosses(self) ==
    << IF self.current_def = None THEN <<>> ELSE <<self.current_def[1].en>>,
       [d \in 1..Len(self.result.definitions) |->
           self.result.definitions[d].en] >>

\* C22: a text run changes an English gloss only when caption collection is
\* on, a sense definition is open and none of the sense number, part of
\* speech and Chinese gloss flags is active; as long as every close has
\* named the tag of the top frame, a "hide_cn" caption block is then on the
\* scope stack.  A run received in any other state changes no English
\* gloss, of the open definition or of a definition kept.
C22_EnglishGlossOnlyInsideCaption ==
    [][ (Fed("data") /\ EnglishGlosses(parser') # EnglishGlosses(parser))
        => /\ parser.collecting_en_def
           /\ parser.current_def # None
           /\ ~parser.in_num
           /\ ~parser.in_st
           /\ ~parser.in_def_cn
           /\ (well => FrameOnStack(parser, "en")) ]_vars

\* a run was added to the English gloss inside the caption, after the span
\* of the sense number had closed
C22_RunAddedAfterNumberClosed ==
    /\ trace = << StartEvent("div", "collins_en_cn example"),
                  StartEvent("div", "caption hide_cn"),
                  StartEvent("span", "num"), EndEvent("span"),
                  DataEvent("ab") >>
    /\ parser.current_def # None
    /\ parser.current_def[1].en # ""

\* C23: the English gloss of a sense definition is its text runs joined by
\* exactly one space: the first run is stored as it is, every later run is
\* added after one space, nothing follows the last run, and the definition
\* kept in the result holds the gloss so accumulated.
C23_EnglishGlossJoinedBySingleSpaces ==
    [][ /\ (/\ Fed("data")
            /\ parser.current_def # None
            /\ parser'.current_def # None
            /\ parser'.current_def[1].en # parser.current_def[1].en)
           => parser'.current_def[1].en =
                 IF parser.current_def[1].en = "" THEN Last'.data
                 ELSE parser.current_def[1].en \o " " \o Last'.data
        /\ (/\ Fed("end")
            /\ Len(parser'.result.definitions)
                  = Len(parser.result.definitions) + 1)
           => /\ parser.current_def # None
              /\ parser'.result.definitions[Len(parser'.result.definitions)].en
                    = parser.current_def[1].en
      ]_vars

----------------------------------------------------------------------------
(* C24: the capture flags of a well-nested stream *)

\* C24: as long as every close has named the tag of the top frame, a
\* capture flag is inactive once no frame whose open activated it is left
\* on the scope stack, whatever scopes were nested in it; when the stack is
\* empty again, no capture flag (headword, pronunciations, word form, sense
\* number, part of speech, Chinese gloss, example item, caption, sense
\* definition) is active.
C24_FlagsInactiveOnceTheirScopeClosed ==
    well =>
       /\ \A f \in Flags : scope[f] = None => ~Active(parser, f)
       /\ Depth(parser) = 0 =>
             /\ \A f \in Flags : ~Active(parser, f)
             /\ ~parser.in_li
             /\ ~parser.in_caption
             /\ ~parser.collecting_en_def
             /\ ~parser.in_example
             /\ parser.current_def = None

\* the field that a non-blank run goes to: the first applicable one
Target(self) ==
    IF self.in_word_key THEN "word"
    ELSE IF self.in_pron_uk THEN "pron_uk"
    ELSE IF self.in_pron_us THEN "pron_us"
    ELSE IF self.in_orth THEN "forms"
    ELSE IF self.in_num /\ self.current_def # None THEN "num"
    ELSE IF self.in_st /\ self.current_def # None THEN "pos"
    ELSE IF self.in_def_cn /\ self.current_def # None THEN "cn"
    ELSE IF self.in_li THEN "example"
    ELSE IF self.collecting_en_def /\ self.current_def # None THEN "en"
    ELSE "none"

\* the parser with the fields that text runs are recorded into blanked
Blanked(self) ==
    LET s1 == [self EXCEPT !.result.word = "",
                           !.result.forms = <<>>,
                           !.current_pron_uk = "",
                           !.current_pron_us = "",
                           !.current_example_en = "",
                           !.current_example_cn = ""]
    IN  IF self.current_def = None THEN s1
        ELSE [s1 EXCEPT !.current_def[1].num = "",
                        !.current_def[1].pos = "",
                        !.current_def[1].cn = "",
                        !.current_def[1].en = ""]

----------------------------------------------------------------------------
(* C26: get_result called again *)

\* a caller calls get_result() a second time on the same parser
GetResultAgain ==
    /\ pc = "done"
    /\ parser' = get_result(parser)
    /\ pc' = "again"
    /\ UNCHANGED <<trace, act_depth, scope, well, call, job>>

NextFinal == OpenPron \/ ClosePron \/ TextPron \/ GetResult \/ GetResultAgain

SpecFinal == Init /\ [][NextFinal]_vars

\* C26: get_result is idempotent: a second call on the same parser, with no
\* event in between, returns a record equal to the one the first call
\* returned.
C26_GetResultIdempotent ==
    [][ (pc = "done" /\ pc' = "again")
        => Record(parser'.result) = Record(parser.result) ]_vars

----------------------------------------------------------------------------
(* preprocess_dict.py: process_dict_source *)

\* dict.get(key, default)
Get(d, key, default) == IF key \in DOMAIN d THEN d[key] ELSE default

\* extract_word_info(word_data)
extract_word_info(word_data) ==
    LET content == Get(word_data, "content", <<>>)
        word_content == Get(Get(content, "word", <<>>), "content", <<>>)
    IN  [word |-> Get(word_data, "headWord", ""),
         phonetic_us |-> Get(word_content, "usphone", ""),
         phonetic_uk |-> Get(word_content, "ukphone", ""),
         content |-> dumps(word_data)]

\* words.word is UNIQUE: the INSERT raises IntegrityError when a row of the
\* table holds the word
WordExists_Never(words, word) == FALSE

WordExists(words, word) == \E i \in 1..Len(words) : words[i].word = word

\* SELECT id FROM words WHERE word = ?
WordId(words, word) ==
    (CHOOSE i \in 1..Len(words) : words[i].word = word)

\* PRIMARY KEY (word_id, source): the INSERT raises IntegrityError when the
\* association exists
SourceExists_Never(word_sources, word_id, source) == FALSE

SourceExists(word_sources, word_id, source) ==
    \E i \in 1..Len(word_sources) : word_sources[i] = <<word_id, source>>

MaxSources == 2
MaxWords == 3

SourceNames == {"CET4", "TOEFL"}

HeadWords == {"", "ab", "cd"}

\* the JSON objects of the source files: a rank tells two entries of the
\* same headword apart; one object has no headWord key
WordData ==
    {[headWord |-> w, wordRank |-> r,
      content |-> [word |-> [content |-> [usphone |-> w, ukphone |-> ""]]]] :
        w \in HeadWords, r \in {1, 2}}
    \cup {[wordRank |-> 1]}

\* create_database: the empty tables; seen, first, source, added, base,
\* handled and returned belong to the calls of process_dict_source (seen
\* and first are history: the headwords met per source, and the content of
\* the first entry met of each headword)
NewDatabase ==
    [words |-> <<>>, word_sources |-> <<>>, source |-> "", added |-> 0,
     base |-> 0, handled |-> 0, returned |-> <<>>, seen |-> {},
     first |-> <<>>]

InitDict ==
    /\ parser = CollinsHTMLParser
    /\ trace = <<>>
    /\ pc = "dict_idle"
    /\ act_depth = [f \in Flags |-> 0]
    /\ scope = [f \in Scopes |-> None]
    /\ well = TRUE
    /\ call = NoCall
    /\ job = NewDatabase

\* process_dict_source(source_path, source_name, conn) is called
BeginSource(source_name) ==
    /\ pc = "dict_idle"
    /\ Len(job.returned) < MaxSources
    /\ job' = [job EXCEPT !.source = source_name, !.added = 0,
                          !.base = Len(job.words)]
    /\ pc' = "dict_run"
    /\ UNCHANGED <<parser, trace, act_depth, scope, well, call>>

\* one iteration of the loop over the entries of the source file
ProcessWord(word_data) ==
    /\ pc = "dict_run"
    /\ job.handled < MaxWords
    /\ LET info == extract_word_info(word_data)
           word == info.word
           exists == WordExists(job.words, word)
           row == [id |-> Len(job.words) + 1, word |-> word,
                   phonetic_us |-> info.phonetic_us,
                   phonetic_uk |-> info.phonetic_uk,
                   content |-> info.content]
           words == IF exists THEN job.words ELSE Append(job.words, row)
           word_id == IF exists THEN WordId(job.words, word) ELSE row.id
           word_sources ==
               IF SourceExists(job.word_sources, word_id, job.source)
               THEN job.word_sources
               ELSE Append(job.word_sources, <<word_id, job.source>>)
       IN  job' =
             IF word = "" THEN
                 [job EXCEPT !.handled = @ + 1,
                             !.seen = @ \cup {<<word, job.source>>}]
             ELSE
                 [job EXCEPT !.handled = @ + 1,
                             !.words = words,
                             !.word_sources = word_sources,
                             !.added = IF exists THEN @ ELSE @ + 1,
                             !.seen = @ \cup {<<word, job.source>>},
                             !.first = IF \E f \in 1..Len(@) : @[f][1] = word
                                       THEN @
                                       ELSE Append(@, <<word, info.content>>)]
    /\ UNCHANGED <<parser, trace, pc, act_depth, scope, well, call>>

\* conn.commit(); return added_count
EndSource ==
    /\ pc = "dict_run"
    /\ job' = [job EXCEPT
                 !.returned = Append(@, [count |-> job.added,
                                         before |-> job.base,
                                         after |-> Len(job.words)])]
    /\ pc' = "dict_idle"
    /\ UNCHANGED <<parser, trace, act_depth, scope, well, call>>

Begin == \E source_name \in SourceNames : BeginSource(source_name)

Process == \E word_data \in WordData : ProcessWord(word_data)

NextDict == Begin \/ Process \/ EndSource

SpecDict == InitDict /\ [][NextDict]_vars

\* C27: after any sequence of process_dict_source calls, the words table
\* holds at most one row per headword, with the content of the first entry
\* of that headword processed; every non-empty headword met in a source has
\* exactly one association with that source; entries with an empty headword
\* add nothing; and every call returned the number of rows it inserted into
\* words.
C27_OneRowPerHeadwordFirstContent ==
    /\ \A i, j \in 1..Len(job.words) :
          job.words[i].word = job.words[j].word => i = j
    /\ \A i \in 1..Len(job.words) :
          /\ job.words[i].word # ""
          /\ \E f \in 1..Len(job.first) :
                job.first[f] = <<job.words[i].word, job.words[i].content>>
    /\ \A p \in job.seen :
          IF p[1] = "" THEN
              \A i \in 1..Len(job.words) : job.words[i].word # ""
          ELSE
              \E i \in 1..Len(job.words) :
                  /\ job.words[i].word = p[1]
                  /\ Cardinality({k \in 1..Len(job.word_sources) :
                                    job.word_sources[k]
                                       = <<job.words[i].id, p[2]>>}) = 1
    /\ Len(job.word_sources)
          = Cardinality({p \in job.seen : p[1] # ""})
    /\ \A k \in 1..Len(job.returned) :
          job.returned[k].count
             = job.returned[k].after - job.returned[k].before

\* a headword met twice in one source and once more in a second one has one
\* row, from its first entry, and one association per source
C27_RepeatedHeadwordKeptOnce ==
    /\ pc = "dict_idle"
    /\ Len(job.returned) = 2
    /\ Len(job.words) = 1
    /\ job.words[1].word = "ab"
    /\ job.handled = 3
    /\ Len(job.word_sources) = 2
    /\ job.returned[1].count = 1
    /\ job.returned[2].count = 0

----------------------------------------------------------------------------
(* generate_abstracts.py *)

\* json.loads(content_str): the text written by dumps is read back; any
\* other text raises, and the bare except of the extractors catches it
IsJson(content_str) == "json" \in DOMAIN content_str

loads(content_str) == content_str.json

\* the Python expression `a or b` on strings
Or(a, b) == IF a # "" THEN a ELSE b

\* items[:n]
Take(items, n) == SubSeq(items, 1, IF Len(items) < n THEN Len(items) ELSE n)

UpperCase == "ABCDEFGHIJKLMNOPQRSTUVWXYZ"

LowerCase == "abcdefghijklmnopqrstuvwxyz"

\* str.lower() on ASCII text
RECURSIVE lower(_)
lower(s) ==
    IF Len(s) = 0 THEN ""
    ELSE LET c == CharAt(s, 1)
             at == {i \in 1..26 : CharAt(UpperCase, i) = c}
         IN  (IF at = {} THEN c ELSE CharAt(LowerCase, CHOOSE i \in at : TRUE))
                \o lower(Tail(s))

\* re.sub(r'\s+', ' ', cn): every run of whitespace becomes one space
RECURSIVE SubSpaces(_)
SubSpaces(cn) ==
    IF Len(cn) = 0 THEN ""
    ELSE IF Head(cn) \in WhiteSpace THEN
        IF Len(cn) > 1 /\ CharAt(cn, 2) \in WhiteSpace
        THEN SubSpaces(Tail(cn))
        ELSE " " \o SubSpaces(Tail(cn))
    ELSE CharAt(cn, 1) \o SubSpaces(Tail(cn))

\* the loop over trans_list[:2] of extract_main_def
RECURSIVE MainDefs(_)
MainDefs(trans_list) ==
    IF Len(trans_list) = 0 THEN <<>>
    ELSE LET t == Head(trans_list)
             pos == Get(t, "pos", "")
             tran == Get(t, "tranCn", "")
         IN  (IF pos # "" /\ tran # "" THEN <<pos \o " " \o tran>>
              ELSE IF tran # "" THEN <<tran>>
              ELSE <<>>) \o MainDefs(Tail(trans_list))

\* extract_main_def(content_str): (phonetic, definitions, "")
extract_main_def(content_str) ==
    IF ~IsJson(content_str) THEN <<"", "", "">>
    ELSE LET data == loads(content_str)
             content == Get(data, "content", <<>>)
             word_data == Get(Get(content, "word", <<>>), "content", <<>>)
             phonetic == IF "usphone" \in DOMAIN word_data
                         THEN word_data["usphone"]
                         ELSE IF "ukphone" \in DOMAIN word_data
                         THEN word_data["ukphone"]
                         ELSE ""
             trans_list == Get(word_data, "trans", <<>>)
         IN  <<phonetic, JoinList("; ", MainDefs(Take(trans_list, 2))), "">>

\* the loop over definitions[:2] of extract_collins_def
RECURSIVE CollinsDefs(_)
CollinsDefs(definitions) ==
    IF Len(definitions) = 0 THEN <<>>
    ELSE LET d == Head(definitions)
             pos == Get(d, "pos", "")
             cn == Get(d, "cn", "")
             clean == strip(SubSpaces(cn))
         IN  (IF cn = "" THEN <<>>
              ELSE IF pos # "" THEN <<pos \o " " \o clean>>
              ELSE <<clean>>) \o CollinsDefs(Tail(definitions))

\* extract_collins_def(content_str): (phonetic, definitions)
extract_collins_def(content_str) ==
    IF ~IsJson(content_str) THEN <<"", "">>
    ELSE LET data == loads(content_str)
         IN  IF DOMAIN data = {} THEN <<"", "">>
             ELSE <<Or(Get(data, "phonetic_uk", ""),
                       Get(data, "phonetic_us", "")),
                    JoinList("; ",
                        CollinsDefs(Take(Get(data, "definitions", <<>>), 2)))>>

\* extract_etyma_def(content_str)
extract_etyma_def(content_str) ==
    IF ~IsJson(content_str) THEN ""
    ELSE LET data == loads(content_str)
         IN  IF DOMAIN data = {} THEN ""
             ELSE Or(Get(data, "etymology", ""), Get(data, "root", ""))

\* content_str.split("\n")
RECURSIVE SplitLines(_)
SplitLines(s) ==
    LET breaks == {i \in 1..Len(s) : CharAt(s, i) = "\n"}
    IN  IF breaks = {} THEN <<s>>
        ELSE LET first == CHOOSE i \in breaks : \A j \in breaks : i <= j
             IN  <<SubSeq(s, 1, first - 1)>>
                    \o SplitLines(SubSeq(s, first + 1, Len(s)))

MinLine == 10
MaxLine == 100

\* the loop over the lines of extract_gpt4_def
RECURSIVE FirstParagraph(_)
FirstParagraph(lines) ==
    IF Len(lines) = 0 THEN ""
    ELSE LET line == strip(Head(lines))
         IN  IF line = "" \/ startswith(line, "#") THEN
                 FirstParagraph(Tail(lines))
             ELSE IF Len(line) < MinLine THEN FirstParagraph(Tail(lines))
             ELSE IF Len(line) > MaxLine
                  THEN SubSeq(line, 1, MaxLine) \o "..."
                  ELSE line

\* extract_gpt4_def(content_str)
extract_gpt4_def(content_str) == FirstParagraph(SplitLines(content_str))

\* d[key] = value on a dict
Put(d, key, value) ==
    [k \in DOMAIN d \cup {key} |-> IF k = key THEN value ELSE d[k]]

\* the four loading loops: the rows selected, keyed by the lower-cased word
\* (a later row of the same key replaces an earlier one)
RECURSIVE LoadRows(_, _)
LoadRows(rows, data) ==
    IF Len(rows) = 0 THEN data
    ELSE LoadRows(Tail(rows),
                  Put(data, lower(Head(rows).word), Head(rows).value))

\* SELECT ... WHERE is_link = 0
NotLinks_All(rows) == rows

RECURSIVE NotLinks(_)
NotLinks(rows) ==
    IF Len(rows) = 0 THEN <<>>
    ELSE (IF Head(rows).is_link = 0 THEN <<Head(rows)>> ELSE <<>>)
            \o NotLinks(Tail(rows))

\* the assignments that open the loop body: phonetic = "" ... gpt4_def = ""
ResetLocals_Kept(locals) == locals

NoLocals ==
    [phonetic |-> "", main_def |-> "", collins_def |-> "", etyma_def |-> "",
     gpt4_def |-> ""]

ResetLocals(locals) == NoLocals

\* one pass of the loop body for a word: the local variables before the
\* INSERT (locals holds what the pass before left in them)
Abstract(word, locals, data) ==
    LET l0 == ResetLocals(locals)
        l1 == IF word \in DOMAIN data.words_data THEN
                  LET row == data.words_data[word]
                  IN  [l0 EXCEPT
                         !.phonetic = Or(row[1], Or(row[2], "")),
                         !.main_def = extract_main_def(row[3])[2]]
              ELSE l0
        l2 == IF word \in DOMAIN data.collins_data THEN
                  LET r == extract_collins_def(data.collins_data[word])
                  IN  [l1 EXCEPT
                         !.collins_def = r[2],
                         !.phonetic = IF @ = "" /\ r[1] # "" THEN r[1] ELSE @]
              ELSE l1
        l3 == IF word \in DOMAIN data.etyma_data THEN
                  [l2 EXCEPT
                     !.etyma_def = extract_etyma_def(data.etyma_data[word])]
              ELSE l2
    IN  IF word \in DOMAIN data.gpt4_data THEN
            [l3 EXCEPT !.gpt4_def = extract_gpt4_def(data.gpt4_data[word])]
        ELSE l3

\* a row of word_abstracts
AbstractRow(word, locals) ==
    [word |-> word, phonetic |-> locals.phonetic,
     main_def |-> locals.main_def, collins_def |-> locals.collins_def,
     etyma_def |-> locals.etyma_def, gpt4_def |-> locals.gpt4_def]

\* INSERT OR REPLACE INTO word_abstracts: word is the PRIMARY KEY
InsertOrReplace(table, row) ==
    {r \in table : r.word # row.word} \cup {row}

\* rows of the four source tables
MainEntry(word, us, uk, trans) ==
    [word |-> word, is_link |-> 0,
     value |-> <<us, uk,
                 dumps([headWord |-> word,
                        content |-> [word |-> [content |->
                            [usphone |-> us, ukphone |-> uk,
                             trans |-> trans]]]])>>]

CollinsEntry(word, uk, us, definitions) ==
    [word |-> word, is_link |-> 0,
     value |-> dumps([word |-> word, phonetic_uk |-> uk, phonetic_us |-> us,
                      frequency |-> 0, forms |-> <<>>,
                      definitions |-> definitions])]

EtymaEntry(word, etymology, root) ==
    [word |-> word, is_link |-> 0,
     value |-> dumps([word |-> word, etymology |-> etymology,
                      root |-> root])]

\* a redirect of import_collins or import_etyma: content "{}", is_link 1
LinkRow(word) == [word |-> word, is_link |-> 1, value |-> dumps(<<>>)]

Gpt4Entry(word, content) == [word |-> word, is_link |-> 0, value |-> content]

WordsTables ==
    {<<>>,
     <<MainEntry("ab", "eb", "ib", <<[pos |-> "n", tranCn |-> "x"]>>)>>,
     <<MainEntry("Ab", "", "", <<>>),
       MainEntry("cd", "", "ib",
                 <<[pos |-> "v", tranCn |-> "x"], [tranCn |-> "y"],
                   [pos |-> "n", tranCn |-> "z"]>>)>>}

CollinsTables ==
    {<<>>,
     <<CollinsEntry("ab", "ub", "ob", <<[pos |-> "N", cn |-> " x  y "]>>),
       LinkRow("ef")>>,
     <<CollinsEntry("cd", "", "ud", <<[pos |-> "", cn |-> "x"]>>),
       CollinsEntry("Ef", "", "", <<>>)>>}

EtymaTables ==
    {<<>>,
     <<EtymaEntry("ef", "", "e=out"), LinkRow("gh")>>}

Gpt4Tables ==
    {<<>>,
     <<Gpt4Entry("gh", "# gh\n\nshort\n  gh is a sound.\nmore")>>,
     <<Gpt4Entry("AB", "## AB\n" \o Pad(MaxLine + 1))>>}

\* a word_abstracts table left by an earlier run
OldAbstracts == {{}, {AbstractRow("zz", NoLocals)}}

InitAbstracts ==
    /\ parser = CollinsHTMLParser
    /\ trace = <<>>
    /\ pc = "abs_open"
    /\ act_depth = [f \in Flags |-> 0]
    /\ scope = [f \in Scopes |-> None]
    /\ well = TRUE
    /\ call = NoCall
    /\ \E words \in WordsTables, collins_words \in CollinsTables,
          etyma_words \in EtymaTables, gpt4_words \in Gpt4Tables,
          word_abstracts \in OldAbstracts :
          job = [words |-> words, collins_words |-> collins_words,
                 etyma_words |-> etyma_words, gpt4_words |-> gpt4_words,
                 word_abstracts |-> word_abstracts,
                 data |-> None, all_words |-> {}, locals |-> NoLocals,
                 order |-> <<>>]

\* generate_abstracts up to its main loop: the table is dropped and
\* created, the four sources are loaded and their keys collected
LoadData ==
    /\ pc = "abs_open"
    /\ LET data == [words_data |-> LoadRows(job.words, <<>>),
                    collins_data |->
                        LoadRows(NotLinks(job.collins_words), <<>>),
                    etyma_data |-> LoadRows(NotLinks(job.etyma_words), <<>>),
                    gpt4_data |-> LoadRows(job.gpt4_words, <<>>)]
       IN  job' = [job EXCEPT
                     !.word_abstracts = {},
                     !.data = data,
                     !.all_words = DOMAIN data.words_data
                                     \cup DOMAIN data.collins_data
                                     \cup DOMAIN data.etyma_data
                                     \cup DOMAIN data.gpt4_data]
    /\ pc' = "abs_loop"
    /\ UNCHANGED <<parser, trace, act_depth, scope, well, call>>

\* one pass of `for word in all_words`: the set is iterated in an order
\* the program does not choose (all_words holds the words still to come)
AbstractWord(word) ==
    /\ pc = "abs_loop"
    /\ word \in job.all_words
    /\ LET locals == Abstract(word, job.locals, job.data)
       IN  job' = [job EXCEPT
                     !.locals = locals,
                     !.word_abstracts =
                         InsertOrReplace(@, AbstractRow(word, locals)),
                     !.all_words = @ \ {word},
                     !.order = Append(@, word)]
    /\ UNCHANGED <<parser, trace, pc, act_depth, scope, well, call>>

\* the loop is over: conn.commit()
CommitAbstracts ==
    /\ pc = "abs_loop"
    /\ job.all_words = {}
    /\ pc' = "abs_done"
    /\ UNCHANGED <<parser, trace, act_depth, scope, well, call, job>>

NextWord == \E word \in job.all_words : AbstractWord(word)

NextAbstracts == LoadData \/ NextWord \/ CommitAbstracts

SpecAbstracts == InitAbstracts /\ [][NextAbstracts]_vars

\* the lower-cased headwords of a source table, redirects left out
Headwords(rows) ==
    {lower(rows[i].word) : i \in {k \in 1..Len(rows) : rows[k].is_link = 0}}

AllHeadwords ==
    Headwords(job.words) \cup Headwords(job.collins_words)
        \cup Headwords(job.etyma_words) \cup Headwords(job.gpt4_words)

\* the phonetic of the main dictionary for a word ("": none)
MainPhonetic(word) ==
    IF word \in DOMAIN job.data.words_data
    THEN Or(job.data.words_data[word][1], job.data.words_data[word][2])
    ELSE ""

\* the phonetic of the Collins record of a word ("": none)
CollinsPhonetic(word) ==
    IF word \in DOMAIN job.data.collins_data
    THEN extract_collins_def(job.data.collins_data[word])[1]
    ELSE ""

\* the row of a word computed from the loaded data alone
RowOf(word) == AbstractRow(word, Abstract(word, NoLocals, job.data))

\* C28: the table built by generate_abstracts is the same for every order
\* in which the union of headwords is iterated: whatever the order, it is
\* the table determined by the loaded data alone, with exactly one row per
\* distinct lower-cased headword of the four sources, the phonetic of the
\* main dictionary when it has one and that of the Collins record
\* otherwise, and nothing from a redirect row.
C28_AbstractsIndependentOfOrder ==
    pc \in {"abs_loop", "abs_done"} =>
        /\ job.word_abstracts \subseteq {RowOf(w) : w \in AllHeadwords}
        /\ \A r \in job.word_abstracts :
              /\ r.phonetic = Or(MainPhonetic(r.word), CollinsPhonetic(r.word))
              /\ r.word \notin Headwords(job.collins_words)
                    => r.collins_def = ""
              /\ r.word \notin Headwords(job.etyma_words)
                    => r.etyma_def = ""
        /\ pc = "abs_done" =>
              /\ job.word_abstracts = {RowOf(w) : w \in AllHeadwords}
              /\ {r.word : r \in job.word_abstracts} = AllHeadwords
              /\ Cardinality(job.word_abstracts) = Cardinality(AllHeadwords)

\* three headwords iterated out of alphabetical order: "ab" has no phonetic
\* in the main dictionary and takes that of Collins, and the redirect "ef"
\* of Collins has no row
C28_UnsortedOrderWithRedirect ==
    /\ pc = "abs_done"
    /\ Len(job.order) = 3
    /\ job.order[1] = "cd"
    /\ job.order[2] = "ab"
    /\ \E r \in job.word_abstracts :
          /\ r.word = "ab"
          /\ r.phonetic = "ub"
          /\ r.collins_def = "N x y"
    /\ \E i \in 1..Len(job.collins_words) :
          /\ job.collins_words[i].word = "ef"
          /\ job.collins_words[i].is_link = 1
    /\ \A r \in job.word_abstracts : r.word # "ef"

====
